---- MODULE Spec2Model ----
(***************************************************************************)
(* A model of the "Open in Editor" Obsidian plugin (src/main.ts).          *)
(*                                                                         *)
(* State: the persisted data.json, the in-memory settings, the saves in    *)
(* flight, the controls the settings tab currently shows, the registered   *)
(* palette commands, the last context menu built, the editor launches and  *)
(* the notices shown.  Strings are TLA+ strings; template literals are     *)
(* concatenations (\o), so a command line or a label is compared verbatim. *)
(***************************************************************************)
EXTENDS Integers, Sequences, FiniteSets, TLC

VARIABLES
    pc,         \* "constructed" before onload has run, "loaded" after
    platform,   \* process.platform
    data,       \* what loadData() returns: <<>> for null, <<obj>> for an object
    settings,   \* this.settings
    inflight,   \* saveData calls started and not completed, in call order
    rendered,   \* the controls of the settings tab as display() last built them
    uncaught,   \* handler promises rejected with nobody catching them
    clock,      \* what Date.now() returned last
    commands,   \* commands registered with addCommand
    checkResult,\* what checkCallback last returned, <<>> before any call
    menu,       \* the entries this plugin added to the menu last opened
    launches,   \* openInEditor calls, in call order
    notices,    \* texts of the Notice objects created, in creation order
    budget      \* user gestures the run still allows (bounds its length)

vars == <<pc, platform, data, settings, inflight, rendered, uncaught, clock,
          commands, checkResult, menu, launches, notices, budget>>

----------------------------------------------------------------------------
(* Bounds of the exploration.                                              *)

MaxEvents == 2       \* user gestures in a run of Spec
MaxTicks == 1        \* milliseconds that pass in a run
MaxLoadEvents == 1   \* user gestures in a run of SpecLoad
MaxMenuEvents == 1   \* user gestures in a run of SpecMenu
MaxLaunchEvents == 3 \* user gestures in a run of SpecLaunch
MaxCustom == 2       \* custom editors in the settings SpecMenu starts from

----------------------------------------------------------------------------
(* Built-in editors and default settings.                                  *)

BUILT_IN_EDITORS ==
    << [id |-> "vscode", name |-> "VS Code", appName |-> "Visual Studio Code",
        command |-> "code", isBuiltIn |-> TRUE],
       [id |-> "cursor", name |-> "Cursor", appName |-> "Cursor",
        command |-> "cursor", isBuiltIn |-> TRUE],
       [id |-> "zed", name |-> "Zed", appName |-> "Zed",
        command |-> "zed", isBuiltIn |-> TRUE],
       [id |-> "windsurf", name |-> "Windsurf", appName |-> "Windsurf",
        command |-> "windsurf", isBuiltIn |-> TRUE],
       [id |-> "antygravity", name |-> "Antygravity", appName |-> "Antygravity",
        command |-> "antygravity", isBuiltIn |-> TRUE] >>

BuiltInIds == { BUILT_IN_EDITORS[i].id : i \in DOMAIN BUILT_IN_EDITORS }

DefaultEntry == [enabled |-> FALSE, grouped |-> FALSE]

DEFAULT_SETTINGS ==
    [ builtInEditors |-> [id \in BuiltInIds |-> DefaultEntry],
      customEditors |-> <<>> ]

----------------------------------------------------------------------------
(* loadSettings: Object.assign({}, DEFAULT_SETTINGS, loadData()) is a      *)
(* shallow merge, key by key; the loop then adds the built-in entries the  *)
(* merged map lacks.                                                       *)

HasKey(d, k) == d # <<>> /\ k \in DOMAIN d[1]

ObjectAssign(d) ==
    [ builtInEditors |-> IF HasKey(d, "builtInEditors")
                         THEN d[1].builtInEditors
                         ELSE DEFAULT_SETTINGS.builtInEditors,
      customEditors |-> IF HasKey(d, "customEditors")
                        THEN d[1].customEditors
                        ELSE DEFAULT_SETTINGS.customEditors ]

SetEntry(m, id, e) ==
    [k \in (DOMAIN m) \cup {id} |-> IF k = id THEN e ELSE m[k]]

RECURSIVE BackFillFrom(_, _)
BackFillFrom(m, i) ==
    IF i > Len(BUILT_IN_EDITORS) THEN m
    ELSE LET id == BUILT_IN_EDITORS[i].id
         IN  IF id \notin DOMAIN m
             THEN BackFillFrom(SetEntry(m, id, DefaultEntry), i + 1)
             ELSE BackFillFrom(m, i + 1)

loadSettingsNoBackFill(d) == ObjectAssign(d)

loadSettings(d) ==
    LET s == ObjectAssign(d)
    IN  [s EXCEPT !.builtInEditors = BackFillFrom(s.builtInEditors, 1)]

----------------------------------------------------------------------------
(* getEnabledEditors: built-ins in declaration order, then custom editors  *)
(* in list order, enabled ones only.                                       *)

RECURSIVE EnabledBuiltIns(_, _)
EnabledBuiltIns(s, i) ==
    IF i > Len(BUILT_IN_EDITORS) THEN <<>>
    ELSE LET editor == BUILT_IN_EDITORS[i]
             rest == EnabledBuiltIns(s, i + 1)
         IN  IF editor.id \in DOMAIN s.builtInEditors
                /\ s.builtInEditors[editor.id].enabled
             THEN << [id |-> editor.id, name |-> editor.name,
                      appName |-> editor.appName, command |-> editor.command,
                      enabled |-> TRUE,
                      grouped |-> s.builtInEditors[editor.id].grouped,
                      isBuiltIn |-> editor.isBuiltIn] >> \o rest
             ELSE rest

RECURSIVE EnabledCustomsAll(_, _)
EnabledCustomsAll(s, i) ==
    IF i > Len(s.customEditors) THEN <<>>
    ELSE LET custom == s.customEditors[i]
         IN  << [id |-> custom.id, name |-> custom.name,
                 appName |-> custom.appName, command |-> custom.command,
                 enabled |-> TRUE, grouped |-> custom.grouped,
                 isBuiltIn |-> FALSE] >> \o EnabledCustomsAll(s, i + 1)

RECURSIVE EnabledCustoms(_, _)
EnabledCustoms(s, i) ==
    IF i > Len(s.customEditors) THEN <<>>
    ELSE LET custom == s.customEditors[i]
             rest == EnabledCustoms(s, i + 1)
         IN  IF custom.enabled
             THEN << [id |-> custom.id, name |-> custom.name,
                      appName |-> custom.appName, command |-> custom.command,
                      enabled |-> TRUE, grouped |-> custom.grouped,
                      isBuiltIn |-> FALSE] >> \o rest
             ELSE rest

getEnabledEditorsAllCustoms(s) ==
    EnabledBuiltIns(s, 1) \o EnabledCustomsAll(s, 1)

getEnabledEditors(s) == EnabledBuiltIns(s, 1) \o EnabledCustoms(s, 1)

----------------------------------------------------------------------------
(* addEditorMenuItems: the entries one menu event adds.  An entry is      *)
(* [title, icon, onClick, submenu]; onClick is <<>> when no handler is set *)
(* and <<[editor, file]>> for () => this.openInEditor(editor, file).       *)

NoFile == [kind |-> "none", path |-> ""]

TopLevelItem(editor, file) ==
    [ title |-> "Open in " \o editor.name, icon |-> "code",
      onClick |-> << [editor |-> editor, file |-> file] >>,
      submenu |-> <<>> ]

SubItemOpenIn(editor, file) == TopLevelItem(editor, file)

SubItem(editor, file) ==
    [ title |-> editor.name, icon |-> "code",
      onClick |-> << [editor |-> editor, file |-> file] >>,
      submenu |-> <<>> ]

IsGrouped(e) == e.grouped
IsUngrouped(e) == ~e.grouped

addEditorMenuItemsNoGroup(s, file) ==
    LET editors == getEnabledEditors(s)
    IN  [i \in 1..Len(editors) |-> TopLevelItem(editors[i], file)]

addEditorMenuItems(s, file) ==
    LET editors == getEnabledEditors(s)
        groupedEditors == SelectSeq(editors, IsGrouped)
        ungroupedEditors == SelectSeq(editors, IsUngrouped)
    IN  IF Len(editors) = 0 THEN <<>>
        ELSE [i \in 1..Len(ungroupedEditors) |->
                 TopLevelItem(ungroupedEditors[i], file)]
             \o (IF Len(groupedEditors) > 0
                 THEN << [ title |-> "Open in External Editor",
                           icon |-> "code", onClick |-> <<>>,
                           submenu |-> [i \in 1..Len(groupedEditors) |->
                                           SubItem(groupedEditors[i], file)] ] >>
                 ELSE <<>>)

----------------------------------------------------------------------------
(* openInEditor, up to the call of execAsync: the path and the command.    *)

Platforms == {"darwin", "win32", "linux"}

basePath == "/vault"

\* FileSystemAdapter.getFullPath of the host: the vault root joined with
\* the vault-relative path.
getFullPath(path) == basePath \o "/" \o path

FilePath(file) ==
    IF file.kind = "file" THEN getFullPath(file.path)
    ELSE IF file.kind = "folder" THEN getFullPath(file.path)
    ELSE basePath

CommandUnquotedPath(p, editor, filePath) ==
    IF p = "darwin"
    THEN "open -a \"" \o editor.appName \o "\" \"" \o filePath \o "\""
    ELSE IF p = "win32"
    THEN "\"" \o editor.command \o "\" " \o filePath
    ELSE editor.command \o " " \o filePath

Command(p, editor, filePath) ==
    IF p = "darwin"
    THEN "open -a \"" \o editor.appName \o "\" \"" \o filePath \o "\""
    ELSE IF p = "win32"
    THEN "\"" \o editor.command \o "\" \"" \o filePath \o "\""
    ELSE editor.command \o " \"" \o filePath \o "\""

SuccessNotice(editor) == "Opening in " \o editor.name

FailureNotice(editor) ==
    "Failed to open in " \o editor.name \o ". Make sure " \o editor.name
        \o " is installed."

\* The call this.openInEditor(editor, file) up to its await.
StartLaunch(editor, file) ==
    launches' = Append(launches,
        [ editor |-> editor, file |-> file,
          command |-> Command(platform, editor, FilePath(file)),
          status |-> "running", error |-> "", threw |-> FALSE ])

----------------------------------------------------------------------------
(* registerEditorCommands and the settings tab's display().                *)

registerEditorCommandsAll(s) ==
    [i \in 1..Len(BUILT_IN_EDITORS) |->
        [ id |-> "open-in-" \o BUILT_IN_EDITORS[i].id,
          name |-> "Open current file in " \o BUILT_IN_EDITORS[i].name,
          editor |-> [ id |-> BUILT_IN_EDITORS[i].id,
                       name |-> BUILT_IN_EDITORS[i].name,
                       appName |-> BUILT_IN_EDITORS[i].appName,
                       command |-> BUILT_IN_EDITORS[i].command,
                       enabled |-> TRUE, grouped |-> FALSE,
                       isBuiltIn |-> TRUE ] ]]

registerEditorCommands(s) ==
    LET editors == getEnabledEditors(s)
    IN  [i \in 1..Len(editors) |->
            [ id |-> "open-in-" \o editors[i].id,
              name |-> "Open current file in " \o editors[i].name,
              editor |-> editors[i] ]]

NotShown == [shown |-> FALSE, builtIn |-> <<>>, custom |-> <<>>]

\* One row per built-in editor, in declaration order, and one per custom
\* editor; a row keeps what its closures captured: the id of the editor it
\* was built for and whether the Group toggle was left enabled.
display(s) ==
    [ shown |-> TRUE,
      builtIn |-> [i \in 1..Len(BUILT_IN_EDITORS) |->
                      [ id |-> BUILT_IN_EDITORS[i].id,
                        enabled |-> s.builtInEditors[BUILT_IN_EDITORS[i].id].enabled ]],
      custom |-> [i \in 1..Len(s.customEditors) |->
                     [ id |-> s.customEditors[i].id,
                       enabled |-> s.customEditors[i].enabled ]] ]

\* saveSettings: saveData(this.settings) is started with the settings as
\* they are now; `by` is the handler that called and `then` what it does
\* when the save completes.  Every pending saveData holds the same live
\* object, so `seen` collects what that object has held since the call.
saveSettings(s, by, then) ==
    inflight' = Append([k \in DOMAIN inflight |->
                           [inflight[k] EXCEPT !.seen = @ \cup {s}]],
                       [snap |-> s, by |-> by, then |-> then, seen |-> {s}])

RemoveAt(seq, i) ==
    IF i \in 1..Len(seq)
    THEN SubSeq(seq, 1, i - 1) \o SubSeq(seq, i + 1, Len(seq))
    ELSE seq

----------------------------------------------------------------------------
(* Inputs.                                                                 *)

NoteFile == [kind |-> "file", path |-> "note.md"]
DocsFolder == [kind |-> "folder", path |-> "My Docs"]
Files == {NoteFile, DocsFolder}

FileLists == { <<>>, <<NoteFile>>, <<DocsFolder, NoteFile>> }
ViewFiles == { <<>>, <<NoteFile>> }
ActiveFiles == { <<>>, <<NoteFile>> }

Names == {"Sublime"}
AppNames == {"Sublime Text"}
CommandTokens == {"subl"}
ExecErrors == {"exit code 1", "ENOENT"}

Entries == [enabled : BOOLEAN, grouped : BOOLEAN]

\* A custom editor as an earlier activation created it at clock value t.
SavedCustom(t, enabled, grouped) ==
    [ id |-> "custom-" \o ToString(t), name |-> "Editor " \o ToString(t),
      appName |-> "App " \o ToString(t), command |-> "cmd" \o ToString(t),
      enabled |-> enabled, grouped |-> grouped ]

SavedData ==
    [ builtInEditors |->
          [id \in BuiltInIds |->
              IF id = "vscode" THEN [enabled |-> TRUE, grouped |-> FALSE]
              ELSE IF id = "zed" THEN [enabled |-> TRUE, grouped |-> TRUE]
              ELSE DefaultEntry],
      customEditors |-> << SavedCustom(1, TRUE, FALSE),
                           SavedCustom(2, FALSE, FALSE) >> ]

FirstNow == Len(SavedData.customEditors) + 1

\* Every data.json whose builtInEditors map holds any subset of the
\* built-in ids with any flags, and the ones that lack a key altogether.
LoadShapes ==
    { <<>>, << [customEditors |-> <<>>] >>,
      << [customEditors |-> SavedData.customEditors] >>,
      << [builtInEditors |-> SavedData.builtInEditors] >> }
    \cup { << [builtInEditors |-> m, customEditors |-> <<>>] >> :
             m \in UNION { [S -> Entries] : S \in SUBSET BuiltInIds } }

CustomLists ==
    UNION { { [i \in 1..n |-> SavedCustom(i, f[i].enabled, f[i].grouped)] :
                f \in [1..n -> Entries] } : n \in 0..MaxCustom }

MenuSettings ==
    { [builtInEditors |-> b, customEditors |-> c] :
        b \in [BuiltInIds -> Entries], c \in CustomLists }

----------------------------------------------------------------------------
(* Initial states.                                                         *)

Quiet ==
    /\ inflight = <<>>
    /\ rendered = NotShown
    /\ uncaught = 0
    /\ checkResult = <<>>
    /\ menu = <<>>
    /\ launches = <<>>
    /\ notices = <<>>

\* The plugin object exists and onload has not run: a first run (no
\* data.json) or a data.json an earlier activation saved.
Init ==
    /\ pc = "constructed"
    /\ platform = "linux"
    /\ data \in { <<>>, <<SavedData>> }
    /\ settings = DEFAULT_SETTINGS
    /\ commands = <<>>
    /\ budget = MaxEvents
    /\ clock = FirstNow
    /\ Quiet

\* Every shape of data.json.
Init_Load ==
    /\ pc = "constructed"
    /\ platform = "linux"
    /\ data \in LoadShapes
    /\ settings = DEFAULT_SETTINGS
    /\ commands = <<>>
    /\ budget = MaxLoadEvents
    /\ clock = FirstNow
    /\ Quiet

\* Activated on some settings, nothing else done yet.
Init_Menu ==
    /\ pc = "loaded"
    /\ platform = "linux"
    /\ settings \in MenuSettings
    /\ data = <<settings>>
    /\ commands = registerEditorCommands(settings)
    /\ budget = MaxMenuEvents
    /\ clock = FirstNow
    /\ Quiet

Init_Launch ==
    /\ pc = "loaded"
    /\ platform \in Platforms
    /\ settings = loadSettings(<<SavedData>>)
    /\ data = <<SavedData>>
    /\ commands = registerEditorCommands(settings)
    /\ budget = MaxLaunchEvents
    /\ clock = FirstNow
    /\ Quiet

----------------------------------------------------------------------------
(* Activation.                                                             *)

onload ==
    /\ pc = "constructed"
    /\ pc' = "loaded"
    /\ settings' = loadSettings(data)
    /\ commands' = registerEditorCommands(settings')
    /\ UNCHANGED <<platform, data, inflight, rendered, uncaught, clock,
                   checkResult, menu, launches, notices, budget>>

\* The host shows the settings tab and calls display(): the first time, or
\* again when the user comes back to the tab.
OpenSettingsTab ==
    /\ pc = "loaded"
    /\ rendered' = display(settings)
    /\ UNCHANGED <<pc, platform, data, settings, inflight, uncaught, clock,
                   commands, checkResult, menu, launches, notices, budget>>

\* What a call of Date.now() can return.  It reads the wall clock, which
\* can stand still between two calls and can be set back: a value can be
\* one returned before, or the one in the id of an editor of data.json.
Now == 1..(FirstNow + MaxTicks)

----------------------------------------------------------------------------
(* Settings tab handlers.  A gesture needs a control that is on screen;    *)
(* a control keeps the index it was built with (1-based here, 0-based in   *)
(* the source) until display() builds the tab again.                       *)

Gesture ==
    /\ pc = "loaded"
    /\ budget > 0
    /\ budget' = budget - 1

UiFrame == UNCHANGED <<pc, platform, data, clock, commands, checkResult,
                       menu, launches, notices>>

BuiltInEnableOnChangeReregisters(i, value) ==
    /\ Gesture
    /\ rendered.shown
    /\ settings' = [settings EXCEPT
                      !.builtInEditors[rendered.builtIn[i].id].enabled = value]
    /\ saveSettings(settings', "builtInEnable", "display")
    /\ commands' = registerEditorCommands(settings')
    /\ UNCHANGED <<rendered, uncaught>>
    /\ UNCHANGED <<pc, platform, data, clock, checkResult, menu, launches,
                   notices>>

BuiltInEnableOnChange(i, value) ==
    /\ Gesture
    /\ rendered.shown
    /\ settings' = [settings EXCEPT
                      !.builtInEditors[rendered.builtIn[i].id].enabled = value]
    /\ saveSettings(settings', "builtInEnable", "display")
    /\ UNCHANGED <<rendered, uncaught>>
    /\ UiFrame

BuiltInGroupOnChange(i, value) ==
    /\ Gesture
    /\ rendered.shown
    /\ rendered.builtIn[i].enabled
    /\ settings' = [settings EXCEPT
                      !.builtInEditors[rendered.builtIn[i].id].grouped = value]
    /\ saveSettings(settings', "builtInGroup", "return")
    /\ UNCHANGED <<rendered, uncaught>>
    /\ UiFrame

AddCustomEditorOnClick(now) ==
    /\ Gesture
    /\ rendered.shown
    /\ clock' = now
    /\ settings' = [settings EXCEPT !.customEditors =
                      Append(@, [ id |-> "custom-" \o ToString(now),
                                  name |-> "New Editor", appName |-> "",
                                  command |-> "", enabled |-> FALSE,
                                  grouped |-> FALSE ])]
    /\ saveSettings(settings', "add", "detached")
    /\ rendered' = display(settings')
    /\ UNCHANGED <<pc, platform, data, uncaught, commands, checkResult,
                   menu, launches, notices>>

\* customEditors[index].field = value: a TypeError when the list no longer
\* has that index, thrown before anything is written or saved.
CustomFieldOnChange(i, field, value, then) ==
    /\ Gesture
    /\ rendered.shown
    /\ i \in 1..Len(rendered.custom)
    /\ IF i \in 1..Len(settings.customEditors)
       THEN /\ settings' = [settings EXCEPT !.customEditors[i][field] = value]
            /\ saveSettings(settings', field, then)
            /\ UNCHANGED uncaught
       ELSE /\ uncaught' = uncaught + 1
            /\ UNCHANGED <<settings, inflight>>
    /\ UNCHANGED rendered
    /\ UiFrame

CustomNameOnChange(i, value) == CustomFieldOnChange(i, "name", value, "return")

CustomAppNameOnChange(i, value) ==
    CustomFieldOnChange(i, "appName", value, "return")

CustomCommandOnChange(i, value) ==
    CustomFieldOnChange(i, "command", value, "return")

CustomEnableOnChange(i, value) ==
    CustomFieldOnChange(i, "enabled", value, "display")

CustomGroupOnChange(i, value) ==
    /\ rendered.shown
    /\ i \in 1..Len(rendered.custom)
    /\ rendered.custom[i].enabled
    /\ CustomFieldOnChange(i, "grouped", value, "return")

DeleteOnClick(i) ==
    /\ Gesture
    /\ rendered.shown
    /\ i \in 1..Len(rendered.custom)
    /\ settings' = [settings EXCEPT !.customEditors = RemoveAt(@, i)]
    /\ saveSettings(settings', "delete", "display")
    /\ UNCHANGED <<rendered, uncaught>>
    /\ UiFrame

\* saveData is handed the live settings object, not a copy: the host may
\* serialise it when called, when the write completes, or at any moment in
\* between, and writes what the object held at that moment.
Serialised(save) == save.seen

\* One of the pending saveData calls resolves: the file holds what that
\* call wrote, and the handler awaiting it goes on (to display(), or to its
\* end).  The source awaits each save on its own and puts no order between
\* two pending ones, so which of them the host settles first is left open.
SaveDataComplete ==
    \E k \in DOMAIN inflight :
        /\ \E written \in Serialised(inflight[k]) : data' = << written >>
        /\ inflight' = RemoveAt(inflight, k)
        /\ rendered' = IF inflight[k].then = "display"
                       THEN display(settings) ELSE rendered
        /\ UNCHANGED <<pc, platform, settings, uncaught, clock, commands,
                       checkResult, menu, launches, notices, budget>>

\* One of the pending saveData calls fails: saveSettings and the handlers
\* have no catch, so the handler's promise is rejected with nobody catching
\* it, what came after the await (display()) is skipped, and the file
\* keeps what it held.
SaveDataReject ==
    \E k \in DOMAIN inflight :
        /\ inflight' = RemoveAt(inflight, k)
        /\ uncaught' = uncaught + 1
        /\ UNCHANGED <<pc, platform, data, settings, rendered, clock,
                       commands, checkResult, menu, launches, notices,
                       budget>>

----------------------------------------------------------------------------
(* Menu events, the palette commands and the launches.                     *)

\* Each menu event comes with a menu of its own, so `menu` is replaced.
MenuFrame == UNCHANGED <<pc, platform, data, settings, inflight, rendered,
                         uncaught, clock, commands, checkResult, launches,
                         notices>>

FileMenu(file) ==
    /\ Gesture
    /\ menu' = addEditorMenuItems(settings, file)
    /\ MenuFrame

FilesMenu(files) ==
    /\ Gesture
    /\ menu' = IF Len(files) > 0
               THEN addEditorMenuItems(settings, files[1]) ELSE <<>>
    /\ MenuFrame

\* viewFile is <<>> for a view without a file.
EditorMenu(viewFile) ==
    /\ Gesture
    /\ menu' = IF viewFile # <<>>
               THEN addEditorMenuItems(settings, viewFile[1]) ELSE <<>>
    /\ MenuFrame

LaunchFrame == UNCHANGED <<pc, platform, data, settings, inflight, rendered,
                           uncaught, clock, commands, menu>>

\* A click on an entry of the menu, or a run of a palette command.

ClickTopLevel(i) ==
    /\ Gesture
    /\ i \in 1..Len(menu)
    /\ menu[i].onClick # <<>>
    /\ StartLaunch(menu[i].onClick[1].editor, menu[i].onClick[1].file)
    /\ UNCHANGED <<checkResult, notices>>
    /\ LaunchFrame

ClickSubItem(i, j) ==
    /\ Gesture
    /\ i \in 1..Len(menu)
    /\ j \in 1..Len(menu[i].submenu)
    /\ StartLaunch(menu[i].submenu[j].onClick[1].editor,
                   menu[i].submenu[j].onClick[1].file)
    /\ UNCHANGED <<checkResult, notices>>
    /\ LaunchFrame

\* activeFile is <<>> when getActiveFile() returns null.
checkCallback(c, checking, activeFile) ==
    /\ Gesture
    /\ c \in 1..Len(commands)
    /\ IF activeFile # <<>>
       THEN /\ IF ~checking
               THEN StartLaunch(commands[c].editor, activeFile[1])
               ELSE UNCHANGED launches
            /\ checkResult' = << [id |-> commands[c].id, checking |-> checking,
                                  file |-> activeFile, result |-> TRUE] >>
       ELSE /\ UNCHANGED launches
            /\ checkResult' = << [id |-> commands[c].id, checking |-> checking,
                                  file |-> activeFile, result |-> FALSE] >>
    /\ UNCHANGED notices
    /\ LaunchFrame

\* What openInEditor does after its await: the line after it, or the catch.
AfterResolve(l) ==
    [ launch |-> [l EXCEPT !.status = "resolved"],
      notices |-> << SuccessNotice(l.editor) >> ]

AfterRejectUncaught(l, err) ==
    [ launch |-> [l EXCEPT !.status = "rejected", !.error = err,
                           !.threw = TRUE],
      notices |-> <<>> ]

AfterReject(l, err) ==
    [ launch |-> [l EXCEPT !.status = "rejected", !.error = err],
      notices |-> << FailureNotice(l.editor) >> ]

ExecResolve(k) ==
    /\ k \in 1..Len(launches)
    /\ launches[k].status = "running"
    /\ launches' = [launches EXCEPT ![k] = AfterResolve(@).launch]
    /\ notices' = notices \o AfterResolve(launches[k]).notices
    /\ UNCHANGED <<checkResult, budget>>
    /\ LaunchFrame

ExecReject(k, err) ==
    /\ k \in 1..Len(launches)
    /\ launches[k].status = "running"
    /\ launches' = [launches EXCEPT ![k] = AfterReject(@, err).launch]
    /\ notices' = notices \o AfterReject(launches[k], err).notices
    /\ UNCHANGED <<checkResult, budget>>
    /\ LaunchFrame

----------------------------------------------------------------------------
(* Specifications.                                                         *)

BuiltInEnable ==
    \E i \in 1..Len(BUILT_IN_EDITORS), v \in BOOLEAN : BuiltInEnableOnChange(i, v)
BuiltInGroup ==
    \E i \in 1..Len(BUILT_IN_EDITORS), v \in BOOLEAN : BuiltInGroupOnChange(i, v)
CustomName ==
    \E i \in 1..Len(rendered.custom), v \in Names : CustomNameOnChange(i, v)
CustomAppName ==
    \E i \in 1..Len(rendered.custom), v \in AppNames : CustomAppNameOnChange(i, v)
CustomCommand ==
    \E i \in 1..Len(rendered.custom), v \in CommandTokens :
        CustomCommandOnChange(i, v)
CustomEnable ==
    \E i \in 1..Len(rendered.custom), v \in BOOLEAN : CustomEnableOnChange(i, v)
CustomGroup ==
    \E i \in 1..Len(rendered.custom), v \in BOOLEAN : CustomGroupOnChange(i, v)
Delete == \E i \in 1..Len(rendered.custom) : DeleteOnClick(i)
AddCustomEditor == \E now \in Now : AddCustomEditorOnClick(now)
RunCommand ==
    \E c \in 1..Len(commands), checking \in BOOLEAN,
       f \in ActiveFiles : checkCallback(c, checking, f)
Resolve == \E k \in 1..Len(launches) : ExecResolve(k)
Reject == \E k \in 1..Len(launches), err \in ExecErrors : ExecReject(k, err)
OnFileMenu == \E f \in Files \cup {NoFile} : FileMenu(f)
OnFilesMenu == \E fs \in FileLists : FilesMenu(fs)
OnEditorMenu == \E f \in ViewFiles : EditorMenu(f)
TopLevelClick == \E i \in 1..Len(menu) : ClickTopLevel(i)
SubItemClick ==
    \E i \in 1..Len(menu) : \E j \in 1..Len(menu[i].submenu) : ClickSubItem(i, j)

\* The handlers of the controls of a row.
RowHandlers ==
    \/ BuiltInEnable
    \/ BuiltInGroup
    \/ CustomName
    \/ CustomAppName
    \/ CustomCommand
    \/ CustomEnable
    \/ CustomGroup
    \/ Delete

SettingsHandlers ==
    \/ RowHandlers
    \/ AddCustomEditor

Next ==
    \/ onload
    \/ OpenSettingsTab
    \/ SettingsHandlers
    \/ SaveDataComplete
    \/ SaveDataReject
    \/ RunCommand
    \/ Resolve
    \/ Reject

Spec == Init /\ [][Next]_vars

\* Loading from every shape of data.json, then the settings tab.  The id
\* an added editor gets plays no part in the built-in entries, so here one
\* value of Date.now() stands for all.
Next_Load ==
    \/ onload
    \/ OpenSettingsTab
    \/ RowHandlers
    \/ AddCustomEditorOnClick(FirstNow)
    \/ SaveDataComplete
    \/ SaveDataReject

SpecLoad == Init_Load /\ [][Next_Load]_vars

\* Contributions to a file menu, from every settings value of Init_Menu.
Next_Menu == OnFileMenu

SpecMenu == Init_Menu /\ [][Next_Menu]_vars

Next_Launch ==
    \/ OnFileMenu
    \/ OnFilesMenu
    \/ OnEditorMenu
    \/ TopLevelClick
    \/ SubItemClick
    \/ Resolve
    \/ Reject

SpecLaunch == Init_Launch /\ [][Next_Launch]_vars

----------------------------------------------------------------------------
(* Vocabulary of the properties: the editors of a settings value, stated   *)
(* without the loops of getEnabledEditors.                                 *)

Registry(s) ==
    [i \in 1..(Len(BUILT_IN_EDITORS) + Len(s.customEditors)) |->
        IF i <= Len(BUILT_IN_EDITORS)
        THEN [ id |-> BUILT_IN_EDITORS[i].id, name |-> BUILT_IN_EDITORS[i].name,
               appName |-> BUILT_IN_EDITORS[i].appName,
               command |-> BUILT_IN_EDITORS[i].command,
               enabled |-> s.builtInEditors[BUILT_IN_EDITORS[i].id].enabled,
               grouped |-> s.builtInEditors[BUILT_IN_EDITORS[i].id].grouped,
               isBuiltIn |-> TRUE ]
        ELSE LET c == s.customEditors[i - Len(BUILT_IN_EDITORS)]
             IN  [ id |-> c.id, name |-> c.name, appName |-> c.appName,
                   command |-> c.command, enabled |-> c.enabled,
                   grouped |-> c.grouped, isBuiltIn |-> FALSE ] ]

EnabledUngrouped(s) ==
    LET reg == Registry(s)
    IN  { reg[i] : i \in { k \in DOMAIN reg : reg[k].enabled /\ ~reg[k].grouped } }

EnabledGrouped(s) ==
    LET reg == Registry(s)
    IN  { reg[i] : i \in { k \in DOMAIN reg : reg[k].enabled /\ reg[k].grouped } }

Handler(e, f) == << [editor |-> e, file |-> f] >>

ParentTitle == "Open in External Editor"

Parents(m) == { i \in DOMAIN m : m[i].title = ParentTitle /\ m[i].onClick = <<>> }

ExpectedPath(file) ==
    IF file.kind = "none" THEN "/vault" ELSE "/vault/" \o file.path

----------------------------------------------------------------------------
(* C1: loading back-fills exactly the built-in ids the persisted map       *)
(* lacks with {enabled: false, grouped: false} and keeps every entry that  *)
(* was persisted; from then on, whatever the settings tab does, every      *)
(* built-in id has an entry.                                               *)

C1_EveryBuiltInHasEntry ==
    pc = "loaded" => BuiltInIds \subseteq DOMAIN settings.builtInEditors

C1_LoadStep ==
    (pc = "constructed" /\ pc' = "loaded") =>
        /\ DOMAIN settings'.builtInEditors = BuiltInIds
        /\ \A id \in BuiltInIds :
              IF HasKey(data, "builtInEditors")
                 /\ id \in DOMAIN data[1].builtInEditors
              THEN settings'.builtInEditors[id] = data[1].builtInEditors[id]
              ELSE settings'.builtInEditors[id]
                      = [enabled |-> FALSE, grouped |-> FALSE]

\* C1: every built-in id keeps an entry, and the load step back-fills exactly the missing ones.
C1_BackFill == []C1_EveryBuiltInHasEntry /\ [][C1_LoadStep]_vars

\* Loaded from a map holding only vscode and zed; a toggle has been used
\* since and its save is still in flight.
C1_Witness ==
    /\ pc = "loaded"
    /\ HasKey(data, "builtInEditors")
    /\ DOMAIN data[1].builtInEditors = {"vscode", "zed"}
    /\ data[1].builtInEditors["vscode"] = [enabled |-> TRUE, grouped |-> FALSE]
    /\ settings.builtInEditors["vscode"] = [enabled |-> TRUE, grouped |-> FALSE]
    /\ settings.builtInEditors["windsurf"] = [enabled |-> FALSE, grouped |-> FALSE]
    /\ settings.builtInEditors["cursor"].enabled
    /\ inflight # <<>>

----------------------------------------------------------------------------
(* C2: getEnabledEditors returns no disabled editor, every enabled editor  *)
(* exactly once, built-ins in declaration order and then custom editors in *)
(* list order, each with the grouped flag of the settings; nothing enabled *)
(* gives the empty sequence.                                               *)

C2_EnabledEditors ==
    pc = "loaded" =>
        LET r == getEnabledEditors(settings)
            reg == Registry(settings)
            Pos(e) == CHOOSE i \in DOMAIN reg : reg[i] = e
        IN  /\ \A k \in DOMAIN r :
                  r[k].enabled /\ \E i \in DOMAIN reg : reg[i] = r[k]
            /\ \A i \in DOMAIN reg :
                  reg[i].enabled =>
                      Cardinality({ k \in DOMAIN r : r[k] = reg[i] }) = 1
            /\ \A k1, k2 \in DOMAIN r : k1 < k2 => Pos(r[k1]) < Pos(r[k2])
            /\ Len(r) = Cardinality({ i \in DOMAIN reg : reg[i].enabled })
            /\ (\A i \in DOMAIN reg : ~reg[i].enabled) => r = <<>>

\* A menu was built from settings with enabled and disabled editors of
\* both kinds, the disabled custom editor stored before the enabled one.
C2_Witness ==
    /\ pc = "loaded"
    /\ menu # <<>>
    /\ settings.builtInEditors["cursor"].enabled
    /\ settings.builtInEditors["cursor"].grouped
    /\ ~settings.builtInEditors["vscode"].enabled
    /\ Len(settings.customEditors) = 2
    /\ ~settings.customEditors[1].enabled
    /\ settings.customEditors[2].enabled
    /\ Len(getEnabledEditors(settings)) = 2

----------------------------------------------------------------------------
(* C3: one contribution adds one top-level entry per enabled ungrouped     *)
(* editor, one parent entry "Open in External Editor" exactly when some    *)
(* enabled editor is grouped, with one submenu entry per enabled grouped   *)
(* editor, and nothing when no editor is enabled.                          *)

C3_Contribution(m, s, f) ==
    LET U == EnabledUngrouped(s)
        G == EnabledGrouped(s)
    IN  /\ \A e \in U :
              Cardinality({ i \in DOMAIN m : m[i].onClick = Handler(e, f) }) = 1
        /\ Cardinality({ i \in DOMAIN m : m[i].onClick # <<>> }) = Cardinality(U)
        /\ Cardinality(Parents(m)) = (IF G # {} THEN 1 ELSE 0)
        /\ Len(m) = Cardinality(U) + (IF G # {} THEN 1 ELSE 0)
        /\ \A i \in DOMAIN m : i \notin Parents(m) => m[i].submenu = <<>>
        /\ \A i \in Parents(m) :
              /\ Len(m[i].submenu) = Cardinality(G)
              /\ \A e \in G :
                    Cardinality({ j \in DOMAIN m[i].submenu :
                        m[i].submenu[j].onClick = Handler(e, f) }) = 1
        /\ (U = {} /\ G = {}) => m = <<>>

C3_Step ==
    \A f \in Files \cup {NoFile} :
        FileMenu(f) => C3_Contribution(menu', settings, f)

\* C3: every contribution step adds exactly these entries.
C3_MenuEntries == [][C3_Step]_vars

\* A = VS Code (ungrouped), B = Zed (grouped), nothing else enabled.
C3_Witness ==
    /\ Len(getEnabledEditors(settings)) = 2
    /\ Len(menu) = 2
    /\ menu[1].title = "Open in VS Code"
    /\ menu[2].title = "Open in External Editor"
    /\ Len(menu[2].submenu) = 1
    /\ menu[2].submenu[1].onClick[1].editor.id = "zed"

----------------------------------------------------------------------------
(* C4 as claimed: on win32 and on linux alike the command is the command   *)
(* token, one space and the path in double quotes.                         *)

C4_SameShapeOnWindowsAndLinux ==
    platform \in {"win32", "linux"} =>
        \A k \in DOMAIN launches :
            launches[k].command
                = launches[k].editor.command \o " \""
                    \o ExpectedPath(launches[k].file) \o "\""

(* C4 as amended: that is the command on linux; on win32 the command token *)
(* is in double quotes too.                                                *)

C4_NonMacCommand ==
    \A k \in DOMAIN launches :
        LET l == launches[k]
        IN  /\ platform = "linux" =>
                  l.command = l.editor.command \o " \""
                                  \o ExpectedPath(l.file) \o "\""
            /\ platform = "win32" =>
                  l.command = "\"" \o l.editor.command \o "\" \""
                                  \o ExpectedPath(l.file) \o "\""
            /\ (platform = "linux" /\ l.editor.command = "code"
                    /\ l.file = NoteFile)
                  => l.command = "code \"/vault/note.md\""
            /\ (platform = "win32" /\ l.editor.command = "code"
                    /\ l.file = NoteFile)
                  => l.command = "\"code\" \"/vault/note.md\""

C4_Witness ==
    /\ platform = "win32"
    /\ \E k \in DOMAIN launches :
          /\ launches[k].editor.id = "vscode"
          /\ launches[k].command = "\"code\" \"/vault/note.md\""

----------------------------------------------------------------------------
(* C5: a launch that has ended has produced exactly one notice, the        *)
(* success notice when the process succeeded and the failure notice naming *)
(* the editor when it failed, and no launch lets an error out.             *)

NumNotices(text) == Cardinality({ n \in DOMAIN notices : notices[n] = text })

NumLaunches(name, status) ==
    Cardinality({ k \in DOMAIN launches :
        launches[k].editor.name = name /\ launches[k].status = status })

C5_OneNoticePerLaunch ==
    /\ \A k \in DOMAIN launches : ~launches[k].threw
    /\ Len(notices)
          = Cardinality({ k \in DOMAIN launches : launches[k].status # "running" })
    /\ \A k \in DOMAIN launches :
          LET name == launches[k].editor.name
          IN  /\ NumNotices("Opening in " \o name) = NumLaunches(name, "resolved")
              /\ NumNotices("Failed to open in " \o name \o ". Make sure "
                                \o name \o " is installed.")
                    = NumLaunches(name, "rejected")

C5_Witness ==
    /\ Len(launches) = 2
    /\ launches[1].status = "rejected"
    /\ launches[1].error = "ENOENT"
    /\ launches[2].status = "resolved"
    /\ Len(notices) = 2

----------------------------------------------------------------------------
(* C6: a control bound to index i acts on the editor it was rendered for:  *)
(* Delete removes exactly that editor and keeps the others in order, and a *)
(* field change lands on that editor, whatever happened since the tab was  *)
(* last rendered.                                                          *)

RowIsCurrent(i) ==
    /\ i \in 1..Len(settings.customEditors)
    /\ settings.customEditors[i].id = rendered.custom[i].id

FieldChangeAt(i) ==
    \/ \E v \in Names : CustomNameOnChange(i, v)
    \/ \E v \in AppNames : CustomAppNameOnChange(i, v)
    \/ \E v \in CommandTokens : CustomCommandOnChange(i, v)
    \/ \E v \in BOOLEAN : CustomEnableOnChange(i, v)
    \/ \E v \in BOOLEAN : CustomGroupOnChange(i, v)

C6_Step ==
    \A i \in 1..Len(rendered.custom) :
        /\ DeleteOnClick(i) =>
              /\ RowIsCurrent(i)
              /\ settings'.customEditors = RemoveAt(settings.customEditors, i)
        /\ FieldChangeAt(i) => RowIsCurrent(i)

\* C6: every index-bound control acts on the editor it was rendered for.
C6_DeleteRemovesRenderedEditor == [][C6_Step]_vars

----------------------------------------------------------------------------
(* C7: no two custom editors share an id.                                  *)

C7_CustomIdsUnique ==
    \A i, j \in DOMAIN settings.customEditors :
        i # j => settings.customEditors[i].id # settings.customEditors[j].id

----------------------------------------------------------------------------
(* C8 as claimed: a submenu entry is labelled "Open in {name}" like a      *)
(* top-level entry.                                                        *)

C8_SubmenuLabelOpenIn ==
    \A i \in DOMAIN menu : \A j \in DOMAIN menu[i].submenu :
        menu[i].submenu[j].title
            = "Open in " \o menu[i].submenu[j].onClick[1].editor.name

(* C8 as amended: a submenu entry is labelled with the editor's name       *)
(* alone; its click, like a top-level entry's, calls openInEditor with     *)
(* that editor and the target the menu was built for.                      *)

C8_SubmenuLabels ==
    \A i \in DOMAIN menu : \A j \in DOMAIN menu[i].submenu :
        LET sub == menu[i].submenu[j]
        IN  /\ Len(sub.onClick) = 1
            /\ sub.title = sub.onClick[1].editor.name
            /\ sub.icon = "code"
            /\ sub.onClick[1].editor.grouped

C8_Step ==
    /\ \A f \in Files \cup {NoFile} :
          FileMenu(f) =>
              /\ \A i \in DOMAIN menu' :
                    /\ menu'[i].onClick # <<>> =>
                          /\ menu'[i].onClick[1].file = f
                          /\ menu'[i].title
                                = "Open in " \o menu'[i].onClick[1].editor.name
                    /\ \A j \in DOMAIN menu'[i].submenu :
                          menu'[i].submenu[j].onClick[1].file = f
    /\ \A i \in DOMAIN menu :
          /\ ClickTopLevel(i) =>
                /\ Len(launches') = Len(launches) + 1
                /\ launches'[Len(launches')].editor = menu[i].onClick[1].editor
                /\ launches'[Len(launches')].file = menu[i].onClick[1].file
          /\ \A j \in DOMAIN menu[i].submenu :
                ClickSubItem(i, j) =>
                    /\ Len(launches') = Len(launches) + 1
                    /\ launches'[Len(launches')].editor
                          = menu[i].submenu[j].onClick[1].editor
                    /\ launches'[Len(launches')].file
                          = menu[i].submenu[j].onClick[1].file

\* C8 (amended): labels of the submenu entries, and what a click launches.
C8_SubmenuEntries == []C8_SubmenuLabels /\ [][C8_Step]_vars

\* The submenu entry "Zed" of a menu built for note.md has been clicked.
C8_Witness ==
    /\ \E i \in DOMAIN menu :
          /\ menu[i].title = "Open in External Editor"
          /\ \E j \in DOMAIN menu[i].submenu :
                /\ menu[i].submenu[j].title = "Zed"
                /\ menu[i].submenu[j].onClick[1].file = NoteFile
    /\ \E k \in DOMAIN launches :
          launches[k].editor.id = "zed" /\ launches[k].file = NoteFile

----------------------------------------------------------------------------
(* C10: onload registers one command per editor enabled in the settings    *)
(* just loaded; nothing after that changes the commands; a command         *)
(* answers available exactly when there is an active file and launches the *)
(* editor it was registered with.                                          *)

C10_LoadStep ==
    (pc = "constructed" /\ pc' = "loaded") =>
        LET E == EnabledUngrouped(settings') \cup EnabledGrouped(settings')
        IN  /\ Len(commands') = Cardinality(E)
            /\ \A e \in E :
                  Cardinality({ c \in DOMAIN commands' :
                      /\ commands'[c].editor = e
                      /\ commands'[c].id = "open-in-" \o e.id }) = 1

C10_Frame == pc = "loaded" => commands' = commands

C10_Run ==
    \A c \in DOMAIN commands, checking \in BOOLEAN, f \in ActiveFiles :
        checkCallback(c, checking, f) =>
            /\ checkResult'[1].result = (f # <<>>)
            /\ IF f # <<>> /\ ~checking
               THEN /\ Len(launches') = Len(launches) + 1
                    /\ launches'[Len(launches')].editor = commands[c].editor
                    /\ launches'[Len(launches')].file = f[1]
               ELSE launches' = launches

\* C10: commands are registered at onload and only there; a run launches the captured editor.
C10_CommandsFixed == [][C10_LoadStep /\ C10_Frame /\ C10_Run]_vars

\* Cursor was enabled after activation and has no command; the command of
\* VS Code has been run on the active file.
C10_Witness ==
    /\ pc = "loaded"
    /\ settings.builtInEditors["cursor"].enabled
    /\ \A c \in DOMAIN commands : commands[c].id # "open-in-cursor"
    /\ \E c \in DOMAIN commands : commands[c].id = "open-in-vscode"
    /\ checkResult # <<>>
    /\ checkResult[1].result
    /\ \E k \in DOMAIN launches : launches[k].editor.id = "vscode"

====
